---- MODULE Spec2Model ----
(***************************************************************************)
(* RiPeN: a terminal RPN calculator (src/src/main.rs).                     *)
(*                                                                         *)
(* Strings are sequences of one-character strings, so that to_lowercase,   *)
(* parse::<f64>, push and pop act on them as the code does.  Stack values  *)
(* are integers (the f64 values that the modelled keys can produce).       *)
(* Threads: the main thread (start-up loading, then the consumer loop),    *)
(* the input-polling thread, and one timer thread per PushError consumed.  *)
(***************************************************************************)
EXTENDS Integers, Sequences, FiniteSets, TLC

VARIABLES
    stack,       \* Calculator.stack
    text_box,    \* Calculator.text_box
    previous,    \* Calculator.previous
    operations,  \* Calculator.operations: lower-cased name -> Operation
    errors,      \* Calculator.errors
    uiuaStack,   \* the stack of Calculator.uiua (the Uiua runtime)
    luaTable,    \* the Lua global _ripen_registry: declared name -> function
    uiuaBound,   \* the names bound in Calculator.uiua (the Uiua runtime)
    loadErr,     \* history: the scripts main sent a PushError for ("lua", "uiua")
    config_dir,  \* main's config_dir is Some(..): the configuration paths exist
    chan,        \* the mpsc channel: events sent and not yet received
    timers,      \* number of timer threads still sleeping
    pc,          \* main thread: "load_lua", "load_uiua", "terminal", "loop", "done"
                 \* (returned after Quit) or "failed" (returned Err or panicked)
    pollPc,      \* polling thread: "off", "poll", "after_key"
    nkeys,       \* number of keys other than Enter read so far by the polling thread
    nenters,     \* number of Enter keys read so far by the polling thread
    nticks,      \* number of Ticks sent so far by the polling thread
    last,        \* history: the event the consumer handled last, with the state before it
    pushed,      \* history: every message appended to errors, in order
    npopped      \* history: number of entries removed from errors

vars == <<stack, text_box, previous, operations, errors, uiuaStack, luaTable,
          uiuaBound, loadErr, config_dir, chan, timers, pc, pollPc, nkeys, nenters, nticks, last, pushed, npopped>>

----------------------------------------------------------------------------
(* Bounds of the model *)

\* keys other than Enter the polling thread reads in one run
MaxKeys == 2
\* Enter keys the polling thread reads in one run
MaxEnters == 2
\* Ticks the polling thread sends in one run (the channel is not bounded)
MaxTicks == 1
\* keys other than Enter, and Enter keys, read in one run of the
\* specification with fairness
FairKeys == 1
FairEnters == 1

----------------------------------------------------------------------------
(* Strings *)

\* the characters the modelled keyboard can type
Chars == {"1", "-", "F", "U"}

\* the letters of the ASCII alphabet, upper case and lower case
UpperLetters == <<"A", "B", "C", "D", "E", "F", "G", "H", "I", "J", "K", "L", "M",
                  "N", "O", "P", "Q", "R", "S", "T", "U", "V", "W", "X", "Y", "Z">>
LowerLetters == <<"a", "b", "c", "d", "e", "f", "g", "h", "i", "j", "k", "l", "m",
                  "n", "o", "p", "q", "r", "s", "t", "u", "v", "w", "x", "y", "z">>

\* char::to_lowercase on ASCII: an upper-case letter becomes its lower-case
\* letter, every other character is kept
LowerChar(c) ==
    IF \E i \in DOMAIN UpperLetters : UpperLetters[i] = c
    THEN LowerLetters[CHOOSE i \in DOMAIN UpperLetters : UpperLetters[i] = c]
    ELSE c

\* str::to_lowercase
to_lowercase(text) == [i \in DOMAIN text |-> LowerChar(text[i])]

IsDigit(c) == c \in {"0", "1", "2", "3", "4", "5", "6", "7", "8", "9"}

DigitVal(c) ==
    CASE c = "0" -> 0 [] c = "1" -> 1 [] c = "2" -> 2 [] c = "3" -> 3
      [] c = "4" -> 4 [] c = "5" -> 5 [] c = "6" -> 6 [] c = "7" -> 7
      [] c = "8" -> 8 [] c = "9" -> 9

RECURSIVE DigitsVal(_)
DigitsVal(ds) ==
    IF ds = <<>> THEN 0
    ELSE 10 * DigitsVal(SubSeq(ds, 1, Len(ds) - 1)) + DigitVal(ds[Len(ds)])

----------------------------------------------------------------------------
(* Values.  The numbers of the calculator are f64.  The model computes the  *)
(* ones it can compute exactly: the dyadic rationals (n/d with d a power of *)
(* two, small enough to be exact in an f64), the two zeros, the infinities  *)
(* and NaN.  Every other result is the term of the operation that produced  *)
(* it, which stands for the f64 that operation returns on those arguments.  *)

Val(k, n, d, op, args) == [k |-> k, n |-> n, d |-> d, op |-> op, args |-> args]

\* n/d in lowest terms with d a power of two; Num(0, 1) is +0.0
Num(n, d)      == Val("num", n, d, "", <<>>)
FromInt(n)     == Num(n, 1)
\* -0.0
NegZero        == Val("-0", 0, 1, "", <<>>)
\* s is 1 for +inf and -1 for -inf
Inf(s)         == Val("inf", s, 0, "", <<>>)
NaN            == Val("nan", 0, 0, "", <<>>)
\* the f64 returned by op on args, where the model does not compute it
Term(op, args) == Val("term", 0, 0, op, args)

Abs(n) == IF n < 0 THEN 0 - n ELSE n

RECURSIVE Gcd(_, _)
Gcd(a, b) == IF b = 0 THEN a ELSE Gcd(b, a % b)

RECURSIVE IsPow2(_)
IsPow2(d) == d = 1 \/ (d > 1 /\ d % 2 = 0 /\ IsPow2(d \div 2))

RECURSIVE IPow(_, _)
IPow(b, e) == IF e = 0 THEN 1 ELSE b * IPow(b, e - 1)

IsTerm(x)   == x.k = "term"
IsNaN(x)    == x.k = "nan"
IsInf(x)    == x.k = "inf"
IsZero(x)   == x.k = "-0" \/ (x.k = "num" /\ x.n = 0)
\* the sign bit as 1 or -1
SignOf(x)   == IF x.k = "-0" \/ (x.k \in {"num", "inf"} /\ x.n < 0) THEN 0 - 1 ELSE 1
Zero(s)     == IF s < 0 THEN NegZero ELSE FromInt(0)
IsInteger(x) == x.k = "-0" \/ (x.k = "num" /\ x.d = 1)
IsOddInt(x)  == x.k = "num" /\ x.d = 1 /\ x.n % 2 = 1

\* the f64 nearest to n/d for integers n # 0 and d # 0: the quotient itself
\* when it is dyadic; op and args name the operation otherwise
Quot(n, d, op, args) ==
    LET g  == Gcd(Abs(n), Abs(d))
        s  == IF (n < 0) # (d < 0) THEN 0 - 1 ELSE 1
        nn == s * (Abs(n) \div g)
        dd == Abs(d) \div g
    IN  IF IsPow2(dd) THEN Num(nn, dd) ELSE Term(op, args)

\* -a
fneg(a) ==
    CASE a.k = "term" -> Term("neg", <<a>>)
      [] a.k = "nan"  -> NaN
      [] a.k = "inf"  -> Inf(0 - a.n)
      [] a.k = "-0"   -> FromInt(0)
      [] a.k = "num"  -> IF a.n = 0 THEN NegZero ELSE Num(0 - a.n, a.d)

\* a + b of two values that are not terms
fadd_known(a, b) ==
    IF IsNaN(a) \/ IsNaN(b) THEN NaN
    ELSE IF IsInf(a) /\ IsInf(b) THEN (IF a.n = b.n THEN a ELSE NaN)
    ELSE IF IsInf(a) THEN a
    ELSE IF IsInf(b) THEN b
    ELSE IF IsZero(a) /\ IsZero(b)
         THEN (IF a.k = "-0" /\ b.k = "-0" THEN NegZero ELSE FromInt(0))
    ELSE LET n == a.n * b.d + b.n * a.d
         IN  IF n = 0 THEN FromInt(0) ELSE Quot(n, a.d * b.d, "+", <<a, b>>)

\* a + b
fadd(a, b) == IF IsTerm(a) \/ IsTerm(b) THEN Term("+", <<a, b>>) ELSE fadd_known(a, b)

\* a - b
fsub(a, b) ==
    IF IsTerm(a) \/ IsTerm(b) THEN Term("-", <<a, b>>) ELSE fadd_known(a, fneg(b))

\* a * b
fmul(a, b) ==
    LET s == SignOf(a) * SignOf(b)
    IN  IF IsTerm(a) \/ IsTerm(b) THEN Term("*", <<a, b>>)
        ELSE IF IsNaN(a) \/ IsNaN(b) THEN NaN
        ELSE IF IsInf(a) \/ IsInf(b)
             THEN (IF IsZero(a) \/ IsZero(b) THEN NaN ELSE Inf(s))
        ELSE IF IsZero(a) \/ IsZero(b) THEN Zero(s)
        ELSE Quot(a.n * b.n, a.d * b.d, "*", <<a, b>>)

\* a / b
fdiv(a, b) ==
    LET s == SignOf(a) * SignOf(b)
    IN  IF IsTerm(a) \/ IsTerm(b) THEN Term("/", <<a, b>>)
        ELSE IF IsNaN(a) \/ IsNaN(b) THEN NaN
        ELSE IF IsInf(a) THEN (IF IsInf(b) THEN NaN ELSE Inf(s))
        ELSE IF IsInf(b) THEN Zero(s)
        ELSE IF IsZero(b) THEN (IF IsZero(a) THEN NaN ELSE Inf(s))
        ELSE IF IsZero(a) THEN Zero(s)
        ELSE Quot(a.n * b.d, a.d * b.n, "/", <<a, b>>)

\* a.powf(b) for a and b finite and not zero
fpow_finite(a, b) ==
    IF a = FromInt(1) THEN FromInt(1)
    ELSE IF b.d # 1 THEN (IF a.n < 0 THEN NaN ELSE Term("^", <<a, b>>))
    ELSE IF b.n > 0 THEN Num(IPow(a.n, b.n), IPow(a.d, b.n))
    ELSE Quot(IPow(a.d, 0 - b.n), IPow(a.n, 0 - b.n), "^", <<a, b>>)

\* a.powf(b)
fpow(a, b) ==
    IF IsTerm(a) \/ IsTerm(b) THEN Term("^", <<a, b>>)
    ELSE IF IsZero(b) \/ a = FromInt(1) THEN FromInt(1)
    ELSE IF IsNaN(a) \/ IsNaN(b) THEN NaN
    ELSE IF IsInf(b)
         THEN (IF a = FromInt(0 - 1) THEN FromInt(1)
               ELSE IF IsInf(a) \/ Abs(a.n) > a.d
                    THEN (IF b.n > 0 THEN Inf(1) ELSE FromInt(0))
               ELSE (IF b.n > 0 THEN FromInt(0) ELSE Inf(1)))
    ELSE IF IsZero(a) \/ IsInf(a)
         THEN LET s   == IF IsOddInt(b) THEN SignOf(a) ELSE 1
                  big == IsInf(a) = (b.n > 0)
              IN  IF big THEN Inf(s) ELSE Zero(s)
    ELSE fpow_finite(a, b)

\* a * PI / 180.0
d2r(a) ==
    CASE a.k = "term" -> Term("d2r", <<a>>)
      [] a.k = "nan"  -> NaN
      [] a.k = "inf"  -> a
      [] a.k = "-0"   -> a
      [] a.k = "num"  -> IF a.n = 0 THEN a ELSE Term("d2r", <<a>>)

\* a.sin(), a.tan(), a.asin(): op is "sin", "tan" or "asin"
fodd(op, a) ==
    CASE a.k = "term" -> Term(op, <<a>>)
      [] a.k = "nan"  -> NaN
      [] a.k = "inf"  -> NaN
      [] a.k = "-0"   -> a
      [] a.k = "num"  ->
            IF a.n = 0 THEN a
            ELSE IF op = "asin" /\ Abs(a.n) > a.d THEN NaN
            ELSE Term(op, <<a>>)

\* a.cos()
fcos(a) ==
    IF IsTerm(a) THEN Term("cos", <<a>>)
    ELSE IF IsNaN(a) \/ IsInf(a) THEN NaN
    ELSE IF IsZero(a) THEN FromInt(1)
    ELSE Term("cos", <<a>>)

\* a.acos()
facos(a) ==
    IF IsTerm(a) THEN Term("acos", <<a>>)
    ELSE IF IsNaN(a) \/ IsInf(a) THEN NaN
    ELSE IF Abs(a.n) > a.d THEN NaN
    ELSE IF a = FromInt(1) THEN FromInt(0)
    ELSE Term("acos", <<a>>)

\* a.atan()
fatan(a) ==
    IF IsTerm(a) THEN Term("atan", <<a>>)
    ELSE IF IsNaN(a) THEN NaN
    ELSE IF IsZero(a) THEN a
    ELSE Term("atan", <<a>>)

\* a.ln()
fln(a) ==
    IF IsTerm(a) THEN Term("ln", <<a>>)
    ELSE IF IsNaN(a) THEN NaN
    ELSE IF IsZero(a) THEN Inf(0 - 1)
    ELSE IF SignOf(a) < 0 THEN NaN
    ELSE IF IsInf(a) THEN a
    ELSE IF a = FromInt(1) THEN FromInt(0)
    ELSE Term("ln", <<a>>)

\* n is the k-th power of a natural number, and that number
IsPower(n, k) == \E r \in 0..n : IPow(r, k) = n
Root(n, k)    == CHOOSE r \in 0..n : IPow(r, k) = n

\* a.sqrt()
fsqrt(a) ==
    IF IsTerm(a) THEN Term("sqrt", <<a>>)
    ELSE IF IsNaN(a) THEN NaN
    ELSE IF IsZero(a) THEN a
    ELSE IF SignOf(a) < 0 THEN NaN
    ELSE IF IsInf(a) THEN a
    ELSE IF IsPower(a.n, 2) /\ IsPower(a.d, 2) THEN Num(Root(a.n, 2), Root(a.d, 2))
    ELSE Term("sqrt", <<a>>)

\* a.cbrt()
fcbrt(a) ==
    IF IsTerm(a) THEN Term("cbrt", <<a>>)
    ELSE IF IsNaN(a) THEN NaN
    ELSE IF IsZero(a) \/ IsInf(a) THEN a
    ELSE IF IsPower(Abs(a.n), 3) /\ IsPower(a.d, 3)
         THEN Num(SignOf(a) * Root(Abs(a.n), 3), Root(a.d, 3))
    ELSE Term("cbrt", <<a>>)

\* std::f64::consts::PI
Pi == Term("pi", <<>>)

\* a == b and a < b on f64, for values that are not terms (the order of a
\* term is not computed)
feq(a, b) ==
    CASE ~IsTerm(a) /\ ~IsTerm(b) ->
            /\ ~IsNaN(a) /\ ~IsNaN(b)
            /\ (IsZero(a) /\ IsZero(b)) \/ a = b
flt(a, b) ==
    CASE ~IsTerm(a) /\ ~IsTerm(b) ->
            /\ ~IsNaN(a) /\ ~IsNaN(b)
            /\ ~feq(a, b)
            /\ IF IsInf(a) THEN a.n < 0
               ELSE IF IsInf(b) THEN b.n > 0
               ELSE a.n * b.d < b.n * a.d

\* the f64 of an unsigned digit string, with the sign of the text
Signed(neg, x) == IF neg THEN fneg(x) ELSE x

\* str::parse::<f64> on the texts of the model: an optional sign, then one
\* or more digits (short enough to be exact), or inf, infinity or nan in
\* any letter case (no text of the model has a '.' or an exponent).
\* Yields [ok, num].
parse_f64(text) ==
    LET signed == text # <<>> /\ text[1] \in {"-", "+"}
        neg    == signed /\ text[1] = "-"
        body   == IF signed THEN Tail(text) ELSE text
        lower  == to_lowercase(body)
        good   == body # <<>> /\ \A i \in DOMAIN body : IsDigit(body[i])
    IN  IF good THEN [ok |-> TRUE, num |-> Signed(neg, FromInt(DigitsVal(body)))]
        ELSE IF lower \in {<<"i", "n", "f">>, <<"i", "n", "f", "i", "n", "i", "t", "y">>}
             THEN [ok |-> TRUE, num |-> Signed(neg, Inf(1))]
        ELSE IF lower = <<"n", "a", "n">> THEN [ok |-> TRUE, num |-> NaN]
        ELSE [ok |-> FALSE, num |-> FromInt(0)]

\* String::pop: drop the last character, nothing on the empty string
StrPop(text) == IF text = <<>> THEN text ELSE SubSeq(text, 1, Len(text) - 1)

----------------------------------------------------------------------------
(* Sequences *)

\* the last k elements (split_at(len - k).1, split_last_chunk::<k>().1)
TopK(v, k) == SubSeq(v, Len(v) - k + 1, Len(v))

\* k times Vec::pop
PopK(v, k) == SubSeq(v, 1, Len(v) - k)

----------------------------------------------------------------------------
(* Operations *)

\* An Operation: kind is "Rust", "Lua" or "Uiua"; fn names the closure, the
\* Lua name (as declared) or the Uiua function; arity is the const N of
\* new_rust, the arg_count of Operation::Lua, or function.signature().args.
Op(kind, fn, arity) == [kind |-> kind, fn |-> fn, arity |-> arity]

\* The built-ins of Calculator::new, by name.  The character U+0060 of the
\* sign-flip alias is written "backquote".
Builtins ==
    (<<"+">> :> Op("Rust", <<"+">>, 2)) @@
    (<<"-">> :> Op("Rust", <<"-">>, 2)) @@
    (<<"*">> :> Op("Rust", <<"*">>, 2)) @@
    (<<"/">> :> Op("Rust", <<"/">>, 2)) @@
    (<<"^">> :> Op("Rust", <<"^">>, 2)) @@
    (<<"n", "e", "g">> :> Op("Rust", <<"n", "e", "g">>, 1)) @@
    (<<"backquote">> :> Op("Rust", <<"backquote">>, 1)) @@
    (<<"s", "i", "n">> :> Op("Rust", <<"s", "i", "n">>, 1)) @@
    (<<"c", "o", "s">> :> Op("Rust", <<"c", "o", "s">>, 1)) @@
    (<<"t", "a", "n">> :> Op("Rust", <<"t", "a", "n">>, 1)) @@
    (<<"a", "s", "i", "n">> :> Op("Rust", <<"a", "s", "i", "n">>, 1)) @@
    (<<"a", "c", "o", "s">> :> Op("Rust", <<"a", "c", "o", "s">>, 1)) @@
    (<<"a", "t", "a", "n">> :> Op("Rust", <<"a", "t", "a", "n">>, 1)) @@
    (<<"d", "2", "r">> :> Op("Rust", <<"d", "2", "r">>, 1)) @@
    (<<"l", "n">> :> Op("Rust", <<"l", "n">>, 1)) @@
    (<<"s", "w", "a", "p">> :> Op("Rust", <<"s", "w", "a", "p">>, 2)) @@
    (<<"p", "r", "e", "d">> :> Op("Rust", <<"p", "r", "e", "d">>, 1)) @@
    (<<"s", "u", "c", "c">> :> Op("Rust", <<"s", "u", "c", "c">>, 1)) @@
    (<<"s", "q", "r", "t">> :> Op("Rust", <<"s", "q", "r", "t">>, 1)) @@
    (<<"c", "b", "r", "t">> :> Op("Rust", <<"c", "b", "r", "t">>, 1)) @@
    (<<"p", "i">> :> Op("Rust", <<"p", "i">>, 0))

\* the closures handed to new_rust, applied to the N operands
rust_op(fn, nums) ==
    CASE fn = <<"+">> -> <<fadd(nums[1], nums[2])>>
      [] fn = <<"-">> -> <<fsub(nums[1], nums[2])>>
      [] fn = <<"*">> -> <<fmul(nums[1], nums[2])>>
      [] fn = <<"/">> -> <<fdiv(nums[1], nums[2])>>
      [] fn = <<"^">> -> <<fpow(nums[1], nums[2])>>
      [] fn = <<"n", "e", "g">> -> <<fneg(nums[1])>>
      [] fn = <<"backquote">> -> <<fneg(nums[1])>>
      [] fn = <<"s", "i", "n">> -> <<fodd("sin", nums[1])>>
      [] fn = <<"c", "o", "s">> -> <<fcos(nums[1])>>
      [] fn = <<"t", "a", "n">> -> <<fodd("tan", nums[1])>>
      [] fn = <<"a", "s", "i", "n">> -> <<fodd("asin", nums[1])>>
      [] fn = <<"a", "c", "o", "s">> -> <<facos(nums[1])>>
      [] fn = <<"a", "t", "a", "n">> -> <<fatan(nums[1])>>
      [] fn = <<"d", "2", "r">> -> <<d2r(nums[1])>>
      [] fn = <<"l", "n">> -> <<fln(nums[1])>>
      [] fn = <<"s", "w", "a", "p">> -> <<nums[2], nums[1]>>
      [] fn = <<"p", "r", "e", "d">> -> <<fsub(nums[1], FromInt(1))>>
      [] fn = <<"s", "u", "c", "c">> -> <<fadd(nums[1], FromInt(1))>>
      [] fn = <<"s", "q", "r", "t">> -> <<fsqrt(nums[1])>>
      [] fn = <<"c", "b", "r", "t">> -> <<fcbrt(nums[1])>>
      [] fn = <<"p", "i">> -> <<Pi>>

\* new_rust with the pops moved before the length check
new_rust_PopFirst(op, v) ==
    LET popped == IF Len(v) < op.arity THEN <<>> ELSE PopK(v, op.arity)
    IN  IF Len(v) < op.arity THEN [ret |-> FALSE, stack |-> popped]
        ELSE [ret |-> TRUE, stack |-> popped \o rust_op(op.fn, TopK(v, op.arity))]

\* new_rust handing the operands to the closure in the order they are
\* popped, the top of the stack first
new_rust_Reversed(op, v) ==
    IF Len(v) < op.arity THEN [ret |-> FALSE, stack |-> v]
    ELSE LET top  == TopK(v, op.arity)
             nums == [i \in 1..op.arity |-> top[op.arity + 1 - i]]
             out  == rust_op(op.fn, nums)
         IN  [ret |-> TRUE, stack |-> PopK(v, op.arity) \o out]

\* The closure built by Operation::new_rust, applied to the stack v:
\* [ret, stack].
new_rust(op, v) ==
    IF Len(v) < op.arity THEN [ret |-> FALSE, stack |-> v]
    ELSE LET nums == TopK(v, op.arity)
             out  == rust_op(op.fn, nums)
         IN  [ret |-> TRUE, stack |-> PopK(v, op.arity) \o out]

----------------------------------------------------------------------------
(* The script runtimes.  The scripts are user files; the model fixes the   *)
(* functions they define and lets start-up choose among a few files.       *)

\* messages of the errors the runtimes and start-up produce
MsgLua      == "lua runtime error"
MsgUiuaCall == "uiua call error"
MsgUiuaNum  == "uiua value is not a number"
MsgNoPath   == "Failed to construct Lua config path"

\* the texts of the errors a load returns: the file does not exist, or the
\* script raises
ErrNoFile == "No such file or directory (os error 2)"
ErrLua    == "runtime error: boom"
ErrUiua   == "Error: boom"

\* format!("Unable to load Lua config: {e}")
MsgLoadLua(e) ==
    CASE e = ErrNoFile -> "Unable to load Lua config: No such file or directory (os error 2)"
      [] e = ErrLua    -> "Unable to load Lua config: runtime error: boom"

\* format!("Unable to load Uiua config: {e}")
MsgLoadUiua(e) ==
    CASE e = ErrNoFile -> "Unable to load Uiua config: No such file or directory (os error 2)"
      [] e = ErrUiua   -> "Unable to load Uiua config: Error: boom"

\* function.call(args) for the Lua functions of the modelled functions.lua:
\*   "dupsucc": function(x) if x > 1 then error() end return x, x + 1 end
\*   "one":     function() return 1 end
\*   "fail":    function(x) error() end
lua_call(body, args) ==
    CASE body = "fail" -> [ok |-> FALSE, out |-> <<>>, msg |-> MsgLua]
      [] body = "dupsucc" ->
            IF flt(FromInt(1), args[1]) THEN [ok |-> FALSE, out |-> <<>>, msg |-> MsgLua]
            ELSE [ok |-> TRUE, out |-> <<args[1], fadd(args[1], FromInt(1))>>, msg |-> ""]
      [] body = "one" -> [ok |-> TRUE, out |-> <<FromInt(1)>>, msg |-> ""]

\* a statement of functions.lua: register(name, arity, function) or a
\* statement that fails with the error e; a file that cannot be read fails
\* before its first statement
LuaRegister(name, arity, body) ==
    [op |-> "register", name |-> name, arity |-> arity, body |-> body, e |-> ""]
LuaError(e) == [op |-> "error", name |-> <<>>, arity |-> 0, body |-> "", e |-> e]
LuaRaise == LuaError(ErrLua)

LuaOk      == <<LuaRegister(<<"F">>, 1, "dupsucc"), LuaRegister(<<"1">>, 0, "one")>>
LuaStrict  == <<LuaRegister(<<"F">>, 1, "fail")>>
LuaFailing == <<LuaRegister(<<"F">>, 1, "dupsucc"), LuaRaise>>
LuaAbsent  == <<LuaError(ErrNoFile)>>
LuaScripts == {LuaOk, LuaStrict, LuaFailing, LuaAbsent}

\* A value of the Uiua runtime: a scalar number, or an array that as_num
\* rejects.
UNum(n) == [num |-> TRUE, v |-> n]
UArr    == [num |-> FALSE, v |-> FromInt(0)]

\* Uiua::call(function) on the runtime stack rt, for the function of the
\* modelled functions.ua.  <<"Cmp">> takes a (below) and b (top):
\*   a = b: leaves a + b,  a < b: leaves a and an array,  a > b: fails.
uiua_call(fn, rt) ==
    LET a    == rt[Len(rt) - 1]
        b    == rt[Len(rt)]
        rest == SubSeq(rt, 1, Len(rt) - 2)
    IN  CASE fn = <<"Cmp">> ->
            IF feq(a.v, b.v)
            THEN [ok |-> TRUE, rt |-> rest \o <<UNum(fadd(a.v, b.v))>>, msg |-> ""]
            ELSE IF flt(a.v, b.v) THEN [ok |-> TRUE, rt |-> rest \o <<a, UArr>>, msg |-> ""]
            ELSE [ok |-> FALSE, rt |-> rest, msg |-> MsgUiuaCall]

\* a statement of functions.ua: a binding, a top-level expression that
\* leaves a value on the stack, or one that fails
UiuaBind(name, fn, arity) ==
    [op |-> "bind", name |-> name, fn |-> fn, arity |-> arity, v |-> FromInt(0), e |-> ""]
UiuaPush(n) ==
    [op |-> "push", name |-> <<>>, fn |-> <<>>, arity |-> 0, v |-> n, e |-> ""]
UiuaError(e) ==
    [op |-> "error", name |-> <<>>, fn |-> <<>>, arity |-> 0, v |-> FromInt(0), e |-> e]
UiuaRaise == UiuaError(ErrUiua)

UiuaOk      == <<UiuaBind(<<"U">>, <<"Cmp">>, 2)>>
UiuaLeft    == <<UiuaPush(FromInt(7)), UiuaBind(<<"U">>, <<"Cmp">>, 2)>>
UiuaFailing == <<UiuaBind(<<"U">>, <<"Cmp">>, 2), UiuaRaise>>
UiuaAbsent  == <<UiuaError(ErrNoFile)>>
UiuaScripts == {UiuaOk, UiuaLeft, UiuaFailing, UiuaAbsent}

\* the statements a script executes: all of them, or those before the first
\* one that fails
RECURSIVE Executed(_)
Executed(script) ==
    IF script = <<>> \/ Head(script).op = "error" THEN <<>>
    ELSE <<Head(script)>> \o Executed(Tail(script))

Fails(script) == \E i \in DOMAIN script : script[i].op = "error"

\* the error a failing script fails with: that of its first failing statement
ErrorOf(script) == script[Len(Executed(script)) + 1].e

----------------------------------------------------------------------------
(* Events *)

\* A key event of the terminal: code is "Char", "Enter", "Backspace" or
\* "Esc" (any other key), ch the character of a Char, ctrl the CONTROL
\* modifier.
Key(code, ch, ctrl) == [code |-> code, ch |-> ch, ctrl |-> ctrl]

Keys ==
    {Key("Char", c, FALSE) : c \in Chars}
    \cup {Key("Char", c, TRUE) : c \in {"d", "w", "l"}}
    \cup {Key("Enter", "", FALSE), Key("Backspace", "", FALSE), Key("Esc", "", FALSE)}

\* enum Event: t is the variant; code and ch are the key of an Input; msg is
\* the message of a PushError.  from is the thread whose clone of the Sender
\* sent it: "poll" (the input-polling thread), "timer" (a thread spawned for
\* an error) or "main" (the main thread, which is also the consumer).
Ev(t, code, ch, msg, from) ==
    [t |-> t, code |-> code, ch |-> ch, msg |-> msg, from |-> from]

PushError(msg) == Ev("PushError", "", "", msg, "main")
PopError       == Ev("PopError", "", "", "", "timer")
Tick           == Ev("Tick", "", "", "", "poll")

\* the event the polling thread sends for a key
translate(key) ==
    IF key.code = "Char" /\ key.ch = "d" /\ key.ctrl THEN Ev("Quit", "", "", "", "poll")
    ELSE IF key.code = "Char" /\ key.ch = "w" /\ key.ctrl THEN Ev("ClearTextBox", "", "", "", "poll")
    ELSE IF key.code = "Char" /\ key.ch = "l" /\ key.ctrl THEN Ev("Reset", "", "", "", "poll")
    ELSE IF key.code = "Enter" THEN Ev("Submit", "", "", "", "poll")
    ELSE Ev("Input", key.code, key.ch, "", "poll")

----------------------------------------------------------------------------
(* Calculator *)

\* i.as_num(..) over the drained values, in order: the numbers converted
\* before the first value that is not a number, and whether there is one
RECURSIVE as_nums(_)
as_nums(vals) ==
    IF vals = <<>> THEN [ok |-> TRUE, out |-> <<>>]
    ELSE IF ~Head(vals).num THEN [ok |-> FALSE, out |-> <<>>]
    ELSE LET r == as_nums(Tail(vals))
         IN  [ok |-> r.ok, out |-> <<Head(vals).v>> \o r.out]

\* the Uiua arm with the operands popped before the drained values are
\* converted
operate_uiua_PopEarly(op, stk, rt) ==
    LET arg_count == op.arity
    IN  IF Len(stk) >= arg_count
        THEN LET stack_top  == TopK(stk, arg_count)
                 loaded     == rt \o [i \in 1..arg_count |-> UNum(stack_top[i])]
                 result     == uiua_call(op.fn, loaded)
                 conv       == as_nums(result.rt)
             IN  IF result.ok
                 THEN IF conv.ok
                      THEN [ret |-> TRUE, stack |-> PopK(stk, arg_count) \o conv.out,
                            sent |-> <<>>, rt |-> <<>>]
                      ELSE [ret |-> FALSE, stack |-> PopK(stk, arg_count),
                            sent |-> <<PushError(MsgUiuaNum)>>, rt |-> <<>>]
                 ELSE [ret |-> FALSE, stack |-> stk,
                       sent |-> <<PushError(result.msg)>>, rt |-> <<>>]
        ELSE [ret |-> FALSE, stack |-> stk, sent |-> <<>>, rt |-> rt]

\* the Operation::Uiua arm of operate: [ret, stack, sent, rt]
operate_uiua(op, stk, rt) ==
    LET arg_count == op.arity
    IN  IF Len(stk) >= arg_count
        THEN LET stack_top  == TopK(stk, arg_count)
                 loaded     == rt \o [i \in 1..arg_count |-> UNum(stack_top[i])]
                 result     == uiua_call(op.fn, loaded)
                 uiua_stack == result.rt
                 conv       == as_nums(uiua_stack)
             IN  IF result.ok
                 THEN IF conv.ok
                      THEN [ret |-> TRUE, stack |-> PopK(stk, arg_count) \o conv.out,
                            sent |-> <<>>, rt |-> <<>>]
                      ELSE [ret |-> FALSE, stack |-> stk,
                            sent |-> <<PushError(MsgUiuaNum)>>, rt |-> <<>>]
                 ELSE [ret |-> FALSE, stack |-> stk,
                       sent |-> <<PushError(result.msg)>>, rt |-> <<>>]
        ELSE [ret |-> FALSE, stack |-> stk, sent |-> <<>>, rt |-> rt]

\* the Lua arm with the error of the call dropped instead of sent
operate_lua_Swallow(op, stk, ltab, rt) ==
    LET arg_count == op.arity
    IN  IF Len(stk) >= arg_count
        THEN LET out == lua_call(ltab[op.fn], TopK(stk, arg_count))
             IN  IF out.ok
                 THEN [ret |-> TRUE, stack |-> PopK(stk, arg_count) \o out.out,
                       sent |-> <<>>, rt |-> rt]
                 ELSE [ret |-> FALSE, stack |-> stk, sent |-> <<>>, rt |-> rt]
        ELSE [ret |-> FALSE, stack |-> stk, sent |-> <<>>, rt |-> rt]

\* the Operation::Lua arm of operate: [ret, stack, sent, rt]
operate_lua(op, stk, ltab, rt) ==
    LET function  == ltab[op.fn]
        arg_count == op.arity
    IN  IF Len(stk) >= arg_count
        THEN LET stack_top == TopK(stk, arg_count)
                 out       == lua_call(function, stack_top)
             IN  IF out.ok
                 THEN [ret |-> TRUE, stack |-> PopK(stk, arg_count) \o out.out,
                       sent |-> <<>>, rt |-> rt]
                 ELSE [ret |-> FALSE, stack |-> stk,
                       sent |-> <<PushError(out.msg)>>, rt |-> rt]
        ELSE [ret |-> FALSE, stack |-> stk, sent |-> <<>>, rt |-> rt]

\* the Operation::Rust arm of operate
operate_rust(op, stk, rt) ==
    LET r == new_rust(op, stk)
    IN  [ret |-> r.ret, stack |-> r.stack, sent |-> <<>>, rt |-> rt]

\* operate reporting an unknown name with a PushError
operate_ReportUnknown(text, ops, stk, ltab, rt) ==
    LET key == to_lowercase(text)
    IN  IF key \notin DOMAIN ops
        THEN [ret |-> FALSE, stack |-> stk,
              sent |-> <<PushError("unknown operation")>>, rt |-> rt]
        ELSE LET op == ops[key]
             IN  CASE op.kind = "Rust" -> operate_rust(op, stk, rt)
                   [] op.kind = "Uiua" -> operate_uiua(op, stk, rt)
                   [] op.kind = "Lua"  -> operate_lua(op, stk, ltab, rt)

\* operate looking the text up as it was typed, without to_lowercase
operate_CaseSensitive(text, ops, stk, ltab, rt) ==
    IF text \notin DOMAIN ops
    THEN [ret |-> FALSE, stack |-> stk, sent |-> <<>>, rt |-> rt]
    ELSE LET op == ops[text]
         IN  CASE op.kind = "Rust" -> operate_rust(op, stk, rt)
               [] op.kind = "Uiua" -> operate_uiua(op, stk, rt)
               [] op.kind = "Lua"  -> operate_lua(op, stk, ltab, rt)

\* Calculator::operate(text, tx) with the registry ops, the stack stk, the
\* Lua table ltab and the Uiua runtime stack rt: the value returned, the
\* stack and the runtime stack afterwards, and the events sent on tx.
operate(text, ops, stk, ltab, rt) ==
    LET key == to_lowercase(text)
    IN  IF key \notin DOMAIN ops
        THEN [ret |-> FALSE, stack |-> stk, sent |-> <<>>, rt |-> rt]
        ELSE LET op == ops[key]
             IN  CASE op.kind = "Rust" -> operate_rust(op, stk, rt)
                   [] op.kind = "Uiua" -> operate_uiua(op, stk, rt)
                   [] op.kind = "Lua"  -> operate_lua(op, stk, ltab, rt)

\* the registry after inserting the declarations regs, in order
RECURSIVE InsertLua(_, _)
InsertLua(regs, ops) ==
    IF regs = <<>> THEN ops
    ELSE InsertLua(Tail(regs),
                   (to_lowercase(Head(regs).name)
                      :> Op("Lua", Head(regs).name, Head(regs).arity)) @@ ops)

\* _ripen_registry after the register calls regs, in order
RECURSIVE LuaTableOf(_)
LuaTableOf(regs) ==
    IF regs = <<>> THEN <<>>
    ELSE LET r == regs[Len(regs)]
         IN  (r.name :> r.body) @@ LuaTableOf(SubSeq(regs, 1, Len(regs) - 1))

\* Calculator::load_lua: [ok, operations, table, e]
load_lua(script, ops) ==
    LET regs == Executed(script)
    IN  IF Fails(script)
        THEN [ok |-> FALSE, operations |-> ops, table |-> LuaTableOf(regs),
              e |-> ErrorOf(script)]
        ELSE [ok |-> TRUE, operations |-> InsertLua(regs, ops),
              table |-> LuaTableOf(regs), e |-> ""]

\* the bound functions among the executed statements, inserted lower-cased
RECURSIVE InsertUiua(_, _)
InsertUiua(stmts, ops) ==
    IF stmts = <<>> THEN ops
    ELSE LET h == Head(stmts)
         IN  InsertUiua(Tail(stmts),
                        IF h.op = "bind"
                        THEN (to_lowercase(h.name) :> Op("Uiua", h.fn, h.arity)) @@ ops
                        ELSE ops)

\* the values the executed top-level expressions leave on the runtime stack
RECURSIVE UiuaLeftOn(_)
UiuaLeftOn(stmts) ==
    IF stmts = <<>> THEN <<>>
    ELSE (IF Head(stmts).op = "push" THEN <<UNum(Head(stmts).v)>> ELSE <<>>)
         \o UiuaLeftOn(Tail(stmts))

\* the names the executed statements bind in the runtime
UiuaBoundBy(stmts) == {stmts[i].name : i \in {j \in DOMAIN stmts : stmts[j].op = "bind"}}

\* Calculator::load_uiua: [ok, operations, rt, bound, e]
load_uiua(script, ops, rt) ==
    LET done == Executed(script)
    IN  IF Fails(script)
        THEN [ok |-> FALSE, operations |-> ops, rt |-> rt \o UiuaLeftOn(done),
              bound |-> UiuaBoundBy(done), e |-> ErrorOf(script)]
        ELSE [ok |-> TRUE, operations |-> InsertUiua(done, ops),
              rt |-> rt \o UiuaLeftOn(done), bound |-> UiuaBoundBy(done), e |-> ""]

\* submit with the two operate branches in the other order: the empty line
\* is looked up as a name and Previous is never re-applied
submit_NoRepeat(tb, prev, ops, stk, ltab, rt) ==
    LET p == parse_f64(tb)
    IN  IF p.ok
        THEN [stack |-> Append(stk, p.num), text_box |-> <<>>, previous |-> tb,
              sent |-> <<>>, rt |-> rt, how |-> "num", ret |-> TRUE]
        ELSE LET r == operate(tb, ops, stk, ltab, rt)
             IN  [stack |-> r.stack,
                  text_box |-> IF r.ret THEN <<>> ELSE tb,
                  previous |-> IF r.ret THEN tb ELSE prev,
                  sent |-> r.sent, rt |-> r.rt,
                  how |-> IF tb = <<>> THEN "prev" ELSE "input", ret |-> r.ret]

\* submit recording the line as Previous whatever operate returned
submit_AlwaysRecord(tb, prev, ops, stk, ltab, rt) ==
    LET p == parse_f64(tb)
    IN  IF p.ok
        THEN [stack |-> Append(stk, p.num), text_box |-> <<>>, previous |-> tb,
              sent |-> <<>>, rt |-> rt, how |-> "num", ret |-> TRUE]
        ELSE IF tb = <<>>
        THEN LET r == operate(prev, ops, stk, ltab, rt)
             IN  [stack |-> r.stack, text_box |-> tb, previous |-> prev,
                  sent |-> r.sent, rt |-> r.rt, how |-> "prev", ret |-> r.ret]
        ELSE LET r == operate(tb, ops, stk, ltab, rt)
             IN  [stack |-> r.stack, text_box |-> <<>>, previous |-> tb,
                  sent |-> r.sent, rt |-> r.rt, how |-> "input", ret |-> r.ret]

\* fn submit: [stack, text_box, previous, sent, rt, how, ret]; how names the
\* branch taken ("num", "prev", "input") and ret the value operate returned
\* (TRUE for a literal).
submit(tb, prev, ops, stk, ltab, rt) ==
    LET p == parse_f64(tb)
    IN  IF p.ok
        THEN [stack |-> Append(stk, p.num), text_box |-> <<>>, previous |-> tb,
              sent |-> <<>>, rt |-> rt, how |-> "num", ret |-> TRUE]
        ELSE IF tb = <<>>
        THEN LET r == operate(prev, ops, stk, ltab, rt)
             IN  [stack |-> r.stack, text_box |-> tb, previous |-> prev,
                  sent |-> r.sent, rt |-> r.rt, how |-> "prev", ret |-> r.ret]
        ELSE LET r == operate(tb, ops, stk, ltab, rt)
             IN  [stack |-> r.stack,
                  text_box |-> IF r.ret THEN <<>> ELSE tb,
                  previous |-> IF r.ret THEN tb ELSE prev,
                  sent |-> r.sent, rt |-> r.rt, how |-> "input", ret |-> r.ret]

----------------------------------------------------------------------------
(* Initial state: Calculator::new() and an empty channel *)

\* The record of the event handled last: the event; for a Submit and a
\* Reset also the branch of submit, the value operate returned, the stack,
\* text_box, previous and Uiua runtime stack before the event, and the events
\* the handler sent.
Handled(e, how, ret, sent) ==
    [ev |-> e.t, how |-> how, ret |-> ret, stack |-> stack, text_box |-> text_box,
     previous |-> previous, rt |-> uiuaStack, sent |-> sent]

Seen(e) ==
    [ev |-> e.t, how |-> "", ret |-> FALSE, stack |-> <<>>, text_box |-> <<>>,
     previous |-> <<>>, rt |-> <<>>, sent |-> <<>>]

Init ==
    /\ stack = <<>>
    /\ text_box = <<>>
    /\ previous = <<>>
    /\ operations = Builtins
    /\ errors = <<>>
    /\ uiuaStack = <<>>
    /\ luaTable = <<>>
    /\ uiuaBound = {}
    /\ loadErr = {}
    /\ config_dir \in BOOLEAN
    /\ chan = <<>>
    /\ timers = 0
    /\ pc = "load_lua"
    /\ pollPc = "off"
    /\ nkeys = 0
    /\ nenters = 0
    /\ nticks = 0
    /\ last = [ev |-> "none", how |-> "", ret |-> FALSE, stack |-> <<>>,
               text_box |-> <<>>, previous |-> <<>>, rt |-> <<>>, sent |-> <<>>]
    /\ pushed = <<>>
    /\ npopped = 0

----------------------------------------------------------------------------
(* main: start-up *)

\* main with a load failure treated as fatal: the error is returned from
\* main instead of being sent as a PushError, and the loop never starts
StartLoadLua_Fatal ==
    /\ pc = "load_lua"
    /\ IF config_dir
       THEN \E script \in LuaScripts :
              LET r == load_lua(script, operations)
              IN  /\ operations' = r.operations
                  /\ luaTable' = r.table
                  /\ loadErr' = IF r.ok THEN loadErr ELSE loadErr \cup {"lua"}
                  /\ pc' = IF r.ok THEN "load_uiua" ELSE "failed"
       ELSE /\ loadErr' = loadErr \cup {"lua"}
            /\ pc' = "failed"
            /\ UNCHANGED <<operations, luaTable>>
    /\ UNCHANGED <<stack, text_box, previous, errors, uiuaStack, uiuaBound, config_dir,
                   chan, timers, pollPc, nkeys, nenters, nticks, last, pushed, npopped>>

\* main, "load lua": with a configuration path, functions.lua is one of
\* LuaScripts and an Err of load_lua is sent as a PushError; without one,
\* load_lua is not called and a PushError is sent
StartLoadLua ==
    /\ pc = "load_lua"
    /\ IF config_dir
       THEN \E script \in LuaScripts :
              LET r == load_lua(script, operations)
              IN  /\ operations' = r.operations
                  /\ luaTable' = r.table
                  /\ chan' = IF r.ok THEN chan
                             ELSE Append(chan, PushError(MsgLoadLua(r.e)))
                  /\ loadErr' = IF r.ok THEN loadErr ELSE loadErr \cup {"lua"}
       ELSE /\ chan' = Append(chan, PushError(MsgNoPath))
            /\ loadErr' = loadErr \cup {"lua"}
            /\ UNCHANGED <<operations, luaTable>>
    /\ pc' = "load_uiua"
    /\ UNCHANGED <<stack, text_box, previous, errors, uiuaStack, uiuaBound, config_dir,
                   timers, pollPc, nkeys, nenters, nticks, last, pushed, npopped>>

\* main, "load uiua": as for Lua; the message sent without a configuration
\* path is the same one
StartLoadUiua ==
    /\ pc = "load_uiua"
    /\ IF config_dir
       THEN \E script \in UiuaScripts :
              LET r == load_uiua(script, operations, uiuaStack)
              IN  /\ operations' = r.operations
                  /\ uiuaStack' = r.rt
                  /\ uiuaBound' = r.bound
                  /\ chan' = IF r.ok THEN chan
                             ELSE Append(chan, PushError(MsgLoadUiua(r.e)))
                  /\ loadErr' = IF r.ok THEN loadErr ELSE loadErr \cup {"uiua"}
       ELSE /\ chan' = Append(chan, PushError(MsgNoPath))
            /\ loadErr' = loadErr \cup {"uiua"}
            /\ UNCHANGED <<operations, uiuaStack, uiuaBound>>
    /\ pc' = "terminal"
    /\ UNCHANGED <<stack, text_box, previous, errors, luaTable, config_dir, timers,
                   pollPc, nkeys, nenters, nticks, last, pushed, npopped>>

\* main sets the terminal up (raw mode, alternate screen, Terminal::new):
\* it returns the Err of a step that fails; otherwise the polling thread is
\* spawned and the loop starts
StartTerminal ==
    /\ pc = "terminal"
    /\ \E ok \in BOOLEAN :
         /\ pc' = IF ok THEN "loop" ELSE "failed"
         /\ pollPc' = IF ok THEN "poll" ELSE "off"
    /\ UNCHANGED <<stack, text_box, previous, operations, errors, uiuaStack, luaTable,
                   uiuaBound, loadErr, config_dir, chan, timers, nkeys, nenters, nticks, last,
                   pushed, npopped>>

----------------------------------------------------------------------------
(* The input-polling thread *)

\* The channel is an unbounded mpsc channel: a send never blocks and the
\* thread never looks at what the channel holds, so no action of the thread
\* has a guard on chan.  What is bounded is the run: the keys read (nkeys,
\* nenters) and the Ticks sent (nticks) are counted and capped.

\* event::poll returns true and event::read returns a key: its event is
\* sent; the tick interval has elapsed by then (the thread goes on to send
\* Tick) or it has not (the iteration ends)
PollKeyWithin(maxKeys, maxEnters) ==
    /\ pc = "loop" /\ pollPc = "poll"
    /\ \E key \in Keys :
         /\ IF key.code = "Enter"
            THEN nenters < maxEnters /\ nenters' = nenters + 1 /\ nkeys' = nkeys
            ELSE nkeys < maxKeys /\ nkeys' = nkeys + 1 /\ nenters' = nenters
         /\ chan' = Append(chan, translate(key))
    /\ \E elapsed \in BOOLEAN :
         /\ elapsed => nticks < MaxTicks
         /\ pollPc' = IF elapsed THEN "after_key" ELSE "poll"
    /\ UNCHANGED <<stack, text_box, previous, operations, errors, uiuaStack, luaTable,
                   uiuaBound, loadErr, config_dir, timers, pc, nticks, last, pushed,
                   npopped>>

PollKey == PollKeyWithin(MaxKeys, MaxEnters)

\* event::poll returns false after the time to the next tick: Tick is sent
\* and last_tick reset
PollTimeout ==
    /\ pc = "loop" /\ pollPc = "poll"
    /\ nticks < MaxTicks
    /\ nticks' = nticks + 1
    /\ chan' = Append(chan, Tick)
    /\ UNCHANGED <<stack, text_box, previous, operations, errors, uiuaStack, luaTable,
                   uiuaBound, loadErr, config_dir, timers, pc, pollPc, nkeys, nenters,
                   last, pushed, npopped>>

\* after a key, the tick interval has elapsed: Tick is sent in the same
\* iteration and last_tick reset
TickSend ==
    /\ pc = "loop" /\ pollPc = "after_key"
    /\ nticks < MaxTicks
    /\ nticks' = nticks + 1
    /\ chan' = Append(chan, Tick)
    /\ pollPc' = "poll"
    /\ UNCHANGED <<stack, text_box, previous, operations, errors, uiuaStack, luaTable,
                   uiuaBound, loadErr, config_dir, timers, pc, nkeys, nenters, last,
                   pushed, npopped>>

----
(* Timer threads *)

\* a timer thread wakes up after its sleep and sends PopError
TimerFire ==
    /\ pc = "loop" /\ timers > 0
    /\ timers' = timers - 1
    /\ chan' = Append(chan, PopError)
    /\ UNCHANGED <<stack, text_box, previous, operations, errors, uiuaStack,
                   luaTable, uiuaBound, loadErr, config_dir, pc, pollPc, nkeys, nenters, nticks, last, pushed, npopped>>

----------------------------------------------------------------------------
(* main: the consumer loop, one action per arm of the match on rx.recv() *)

Receives(t) == pc = "loop" /\ chan # <<>> /\ Head(chan).t = t

\* terminal.draw(..)? at the top of an iteration returns Err (the write to
\* the terminal fails) or its closure panics (the u16 subtractions on a
\* terminal of too few rows or columns, in a build that checks overflow):
\* the main thread ends without a Quit, whatever the channel holds
DrawFails ==
    /\ pc = "loop"
    /\ pc' = "failed"
    /\ UNCHANGED <<stack, text_box, previous, operations, errors, uiuaStack, luaTable,
                   uiuaBound, loadErr, config_dir, chan, timers, pollPc, nkeys, nenters,
                   nticks, last, pushed, npopped>>

HandleQuit ==
    /\ Receives("Quit")
    /\ chan' = Tail(chan)
    /\ pc' = "done"
    /\ last' = Seen(Head(chan))
    /\ UNCHANGED <<stack, text_box, previous, operations, errors, uiuaStack,
                   luaTable, uiuaBound, loadErr, config_dir, timers, pollPc, nkeys, nenters, nticks, pushed, npopped>>

HandleInput ==
    /\ Receives("Input")
    /\ chan' = Tail(chan)
    /\ text_box' = CASE Head(chan).code = "Backspace" -> StrPop(text_box)
                     [] Head(chan).code = "Char" -> Append(text_box, Head(chan).ch)
                     [] OTHER -> text_box
    /\ last' = Seen(Head(chan))
    /\ UNCHANGED <<stack, previous, operations, errors, uiuaStack, luaTable, uiuaBound, loadErr, config_dir,
                   timers, pc, pollPc, nkeys, nenters, nticks, pushed, npopped>>

HandleSubmit ==
    /\ Receives("Submit")
    /\ \E r \in {submit(text_box, previous, operations, stack, luaTable, uiuaStack)} :
           /\ stack' = r.stack
           /\ text_box' = r.text_box
           /\ previous' = r.previous
           /\ uiuaStack' = r.rt
           /\ chan' = Tail(chan) \o r.sent
           /\ last' = Handled(Head(chan), r.how, r.ret, r.sent)
    /\ UNCHANGED <<operations, errors, luaTable, uiuaBound, loadErr, config_dir, timers, pc, pollPc, nkeys, nenters, nticks,
                   pushed, npopped>>

\* reset written as a fresh Calculator::new(): the registry and the error
\* queue are reset as well
HandleReset_New ==
    /\ Receives("Reset")
    /\ chan' = Tail(chan)
    /\ stack' = <<>>
    /\ text_box' = <<>>
    /\ previous' = <<>>
    /\ operations' = Builtins
    /\ errors' = <<>>
    /\ last' = Handled(Head(chan), "", FALSE, <<>>)
    /\ UNCHANGED <<uiuaStack, luaTable, uiuaBound, loadErr, config_dir, timers, pc, pollPc, nkeys, nenters, nticks,
                   pushed, npopped>>

\* reset that also drains the error queue
HandleReset_Drain ==
    /\ Receives("Reset")
    /\ chan' = Tail(chan)
    /\ stack' = <<>>
    /\ text_box' = <<>>
    /\ previous' = <<>>
    /\ errors' = <<>>
    /\ npopped' = npopped + Len(errors)
    /\ last' = Handled(Head(chan), "", FALSE, <<>>)
    /\ UNCHANGED <<operations, uiuaStack, luaTable, uiuaBound, loadErr, config_dir, timers, pc, pollPc,
                   nkeys, nenters, nticks, pushed>>

\* Calculator::reset
HandleReset ==
    /\ Receives("Reset")
    /\ chan' = Tail(chan)
    /\ stack' = <<>>
    /\ text_box' = <<>>
    /\ previous' = <<>>
    /\ last' = Handled(Head(chan), "", FALSE, <<>>)
    /\ UNCHANGED <<operations, errors, uiuaStack, luaTable, uiuaBound, loadErr, config_dir, timers, pc, pollPc,
                   nkeys, nenters, nticks, pushed, npopped>>

HandleClearTextBox ==
    /\ Receives("ClearTextBox")
    /\ chan' = Tail(chan)
    /\ text_box' = <<>>
    /\ last' = Seen(Head(chan))
    /\ UNCHANGED <<stack, previous, operations, errors, uiuaStack, luaTable, uiuaBound, loadErr, config_dir,
                   timers, pc, pollPc, nkeys, nenters, nticks, pushed, npopped>>

\* Tick handled by draining the channel: the events waiting behind the Tick
\* are received and discarded
HandleTick_Drain ==
    /\ Receives("Tick")
    /\ chan' = <<>>
    /\ last' = Seen(Head(chan))
    /\ UNCHANGED <<stack, text_box, previous, operations, errors, uiuaStack,
                   luaTable, uiuaBound, loadErr, config_dir, timers, pc, pollPc, nkeys, nenters, nticks,
                   pushed, npopped>>

HandleTick ==
    /\ Receives("Tick")
    /\ chan' = Tail(chan)
    /\ last' = Seen(Head(chan))
    /\ UNCHANGED <<stack, text_box, previous, operations, errors, uiuaStack,
                   luaTable, uiuaBound, loadErr, config_dir, timers, pc, pollPc, nkeys, nenters, nticks, pushed, npopped>>

\* PushError handled without spawning the timer thread
HandlePushError_NoTimer ==
    /\ Receives("PushError")
    /\ chan' = Tail(chan)
    /\ errors' = Append(errors, Head(chan).msg)
    /\ pushed' = Append(pushed, Head(chan).msg)
    /\ last' = Seen(Head(chan))
    /\ UNCHANGED <<stack, text_box, previous, operations, uiuaStack, luaTable, uiuaBound, loadErr, config_dir,
                   timers, pc, pollPc, nkeys, nenters, nticks, npopped>>

\* PushError handled without a timer thread: the consumer itself sends the
\* PopError at once
HandlePushError_SelfPop ==
    /\ Receives("PushError")
    /\ chan' = Append(Tail(chan), Ev("PopError", "", "", "", "main"))
    /\ errors' = Append(errors, Head(chan).msg)
    /\ pushed' = Append(pushed, Head(chan).msg)
    /\ last' = Seen(Head(chan))
    /\ UNCHANGED <<stack, text_box, previous, operations, uiuaStack, luaTable, uiuaBound,
                   loadErr, config_dir, timers, pc, pollPc, nkeys, nenters, nticks, npopped>>

\* errors.push_back(e) and a timer thread is spawned
HandlePushError ==
    /\ Receives("PushError")
    /\ chan' = Tail(chan)
    /\ errors' = Append(errors, Head(chan).msg)
    /\ timers' = timers + 1
    /\ pushed' = Append(pushed, Head(chan).msg)
    /\ last' = Seen(Head(chan))
    /\ UNCHANGED <<stack, text_box, previous, operations, uiuaStack, luaTable, uiuaBound, loadErr, config_dir,
                   pc, pollPc, nkeys, nenters, nticks, npopped>>

\* PopError handled with pop_back
HandlePopError_Back ==
    /\ Receives("PopError")
    /\ chan' = Tail(chan)
    /\ errors' = IF errors = <<>> THEN errors ELSE SubSeq(errors, 1, Len(errors) - 1)
    /\ npopped' = IF errors = <<>> THEN npopped ELSE npopped + 1
    /\ last' = Seen(Head(chan))
    /\ UNCHANGED <<stack, text_box, previous, operations, uiuaStack, luaTable, uiuaBound, loadErr, config_dir,
                   timers, pc, pollPc, nkeys, nenters, nticks, pushed>>

\* PopError handled with errors.clear()
HandlePopError_Clear ==
    /\ Receives("PopError")
    /\ chan' = Tail(chan)
    /\ errors' = <<>>
    /\ npopped' = npopped + Len(errors)
    /\ last' = Seen(Head(chan))
    /\ UNCHANGED <<stack, text_box, previous, operations, uiuaStack, luaTable, uiuaBound,
                   loadErr, config_dir, timers, pc, pollPc, nkeys, nenters, nticks, pushed>>

\* errors.pop_front()
HandlePopError ==
    /\ Receives("PopError")
    /\ chan' = Tail(chan)
    /\ errors' = IF errors = <<>> THEN errors ELSE Tail(errors)
    /\ npopped' = IF errors = <<>> THEN npopped ELSE npopped + 1
    /\ last' = Seen(Head(chan))
    /\ UNCHANGED <<stack, text_box, previous, operations, uiuaStack, luaTable, uiuaBound, loadErr, config_dir,
                   timers, pc, pollPc, nkeys, nenters, nticks, pushed>>

----------------------------------------------------------------------------

Next ==
    \/ StartLoadLua
    \/ StartLoadUiua
    \/ StartTerminal
    \/ PollKey
    \/ PollTimeout
    \/ TickSend
    \/ TimerFire
    \/ DrawFails
    \/ HandleQuit
    \/ HandleInput
    \/ HandleSubmit
    \/ HandleReset
    \/ HandleClearTextBox
    \/ HandleTick
    \/ HandlePushError
    \/ HandlePopError

Spec == Init /\ [][Next]_vars

\* one iteration of the consumer loop
Consume ==
    \/ HandleQuit
    \/ HandleInput
    \/ HandleSubmit
    \/ HandleReset
    \/ HandleClearTextBox
    \/ HandleTick
    \/ HandlePushError
    \/ HandlePopError

\* the polling thread with the key budget of the specification with fairness
PollKeyFair == PollKeyWithin(FairKeys, FairEnters)

FairNext ==
    \/ StartLoadLua
    \/ StartLoadUiua
    \/ StartTerminal
    \/ PollKeyFair
    \/ PollTimeout
    \/ TickSend
    \/ TimerFire
    \/ DrawFails
    \/ Consume

\* The consumer loop handles a received event, and a timer thread wakes up
\* from its sleep and sends: both are threads the scheduler keeps running.
FairSpec == Init /\ [][FairNext]_vars /\ WF_vars(Consume) /\ WF_vars(TimerFire)

----------------------------------------------------------------------------
(* Vocabulary of the properties: the dispatch the last Submit made *)

\* the last event handled was a Submit that called operate
Dispatched == last.ev = "Submit" /\ last.how \in {"prev", "input"}

\* the text handed to operate, and the registry key it was looked up under
DispatchedText == IF last.how = "prev" THEN last.previous ELSE last.text_box
DispatchedKey  == to_lowercase(DispatchedText)

Resolved == Dispatched /\ DispatchedKey \in DOMAIN operations

\* the operation resolved, its arity k, and the top k values before the call
TheOp   == operations[DispatchedKey]
Enough  == Len(last.stack) >= TheOp.arity
TheArgs == TopK(last.stack, TheOp.arity)

\* the Uiua runtime stack when the bound function is invoked, and what the
\* invocation leaves to drain
UiuaLoaded == last.rt \o [i \in 1..TheOp.arity |-> UNum(TheArgs[i])]
UiuaResult == uiua_call(TheOp.fn, UiuaLoaded)

\* the call of a scripted operation fails at call time
CallFails ==
    CASE TheOp.kind = "Lua"  -> ~lua_call(luaTable[TheOp.fn], TheArgs).ok
      [] TheOp.kind = "Uiua" -> ~UiuaResult.ok \/ ~as_nums(UiuaResult.rt).ok
      [] OTHER -> FALSE

\* the message of that failure
FailureMsg ==
    CASE TheOp.kind = "Lua" -> lua_call(luaTable[TheOp.fn], TheArgs).msg
      [] TheOp.kind = "Uiua" ->
            IF ~UiuaResult.ok THEN UiuaResult.msg ELSE MsgUiuaNum

\* The outputs of the operation on the top k values, in order: what the
\* closure returns, what the Lua function returns, what the Uiua call leaves
\* on the runtime stack to drain.
Outputs ==
    CASE TheOp.kind = "Rust" -> rust_op(TheOp.fn, TheArgs)
      [] TheOp.kind = "Lua"  -> lua_call(luaTable[TheOp.fn], TheArgs).out
      [] TheOp.kind = "Uiua" -> as_nums(UiuaResult.rt).out

\* number of occurrences of the event e in the channel
RECURSIVE CountIn(_, _)
CountIn(e, q) ==
    IF q = <<>> THEN 0
    ELSE (IF Head(q) = e THEN 1 ELSE 0) + CountIn(e, Tail(q))

----------------------------------------------------------------------------
(* Properties *)

\* C1: for every operation variant, a call of operate either succeeds with
\* the stack equal to the old stack minus its top k values followed by the
\* operation's outputs in order, or fails with the stack identical to the
\* old stack; the top k values are never partly popped.
C1_Atomic ==
    Dispatched =>
        IF ~Resolved THEN ~last.ret /\ stack = last.stack
        ELSE \/ /\ last.ret
                /\ Enough
                /\ stack = PopK(last.stack, TheOp.arity) \o Outputs
             \/ /\ ~last.ret
                /\ stack = last.stack

\* a Uiua operation of arity 2 succeeded and replaced its two operands
C1_Witness ==
    /\ Resolved /\ TheOp.kind = "Uiua" /\ TheOp.arity = 2
    /\ last.ret /\ Len(last.stack) >= 2
    /\ stack # last.stack

\* C2: applying a k-ary operation to a stack of fewer than k values returns
\* failure and leaves the stack and the input line unchanged; through Submit
\* Previous is unchanged as well.
C2_ArityFailure ==
    (Resolved /\ ~Enough) =>
        /\ ~last.ret
        /\ stack = last.stack
        /\ text_box = last.text_box
        /\ previous = last.previous

\* a binary built-in was applied to a stack of one value
C2_Witness ==
    /\ Resolved /\ TheOp.kind = "Rust" /\ TheOp.arity = 2
    /\ Len(last.stack) = 1
    /\ last.how = "input"

\* C3: when a scripted operation with enough operands fails at call time,
\* operate returns failure, the stack is what it was before the call, and
\* exactly one PushError carrying the failure's message is sent on the
\* channel.
C3_ScriptFailure ==
    (Resolved /\ Enough /\ CallFails) =>
        /\ ~last.ret
        /\ stack = last.stack
        /\ last.sent = <<PushError(FailureMsg)>>
        /\ CountIn(PushError(FailureMsg), chan) >= 1

\* the Uiua call succeeded and the second drained value was not a number
C3_Witness ==
    /\ Resolved /\ Enough /\ TheOp.kind = "Uiua"
    /\ UiuaResult.ok /\ Len(UiuaResult.rt) >= 2 /\ UiuaResult.rt[1].num
    /\ ~as_nums(UiuaResult.rt).ok

\* C4: a submit whose text does not resolve, or resolves to an operation
\* needing more operands than the stack holds, is a silent no-op: no
\* PushError is sent, and the stack, the input line and Previous are as
\* before.
C4_SilentNoOp ==
    (Dispatched /\ (~Resolved \/ ~Enough)) =>
        /\ ~last.ret
        /\ last.sent = <<>>
        /\ stack = last.stack
        /\ text_box = last.text_box
        /\ previous = last.previous

\* a non-empty text that is no registered name was submitted
C4_Witness ==
    /\ Dispatched /\ last.how = "input" /\ ~Resolved
    /\ text_box # <<>>

\* the step in which the consumer handles a received event of variant t
\* (a producer's step makes the channel longer, a failed draw ends the loop
\* with the event still in the channel)
Consumes(t) == Receives(t) /\ pc' # "failed" /\ Len(chan') <= Len(chan)

\* C5: on Submit with a non-empty, non-numeric input line, Previous becomes
\* the submitted text and the input line becomes empty if dispatch succeeds,
\* and both are unchanged if it fails; Previous only ever changes to a text
\* whose submission pushed a literal or applied an operation, or is cleared
\* by a full reset.
C5_Previous ==
    [][ /\ (Consumes("Submit") /\ text_box # <<>> /\ ~parse_f64(text_box).ok) =>
              IF last'.ret
              THEN previous' = text_box /\ text_box' = <<>>
              ELSE previous' = previous /\ text_box' = text_box
        /\ (previous' # previous) =>
              \/ Consumes("Reset") /\ previous' = <<>>
              \/ /\ Consumes("Submit")
                 /\ previous' = text_box
                 /\ \/ /\ parse_f64(text_box).ok
                       /\ stack' = Append(stack, parse_f64(text_box).num)
                    \/ /\ to_lowercase(text_box) \in DOMAIN operations
                       /\ Len(stack) >= operations[to_lowercase(text_box)].arity
                       /\ last'.ret
      ]_vars

\* an operator was submitted with success after another text had been
\* recorded as Previous
C5_Witness ==
    /\ last.ev = "Submit" /\ last.how = "input" /\ last.ret
    /\ last.previous # <<>>
    /\ previous = last.text_box /\ previous # last.previous
    /\ text_box = <<>>

\* C6: on Submit with an empty input line, operate is called with the
\* Previous text on the current stack, and Previous and the input line are
\* unchanged whatever it returns.
C6_Repeat ==
    (last.ev = "Submit" /\ last.text_box = <<>>) =>
        LET r == operate(last.previous, operations, last.stack, luaTable, last.rt)
        IN  /\ last.how = "prev"
            /\ stack = r.stack
            /\ last.ret = r.ret
            /\ last.sent = r.sent
            /\ text_box = <<>>
            /\ previous = last.previous

\* the operator F, submitted with success before, was applied again by an
\* empty Submit to the stack it had produced, where its call fails
C6_Witness ==
    /\ last.ev = "Submit" /\ last.text_box = <<>>
    /\ last.previous = <<"F">>
    /\ Resolved /\ Enough /\ CallFails
    /\ last.stack # <<>>

\* C7: submitting a line that parses as a floating-point literal appends
\* that value, sets Previous to the text and clears the line; an empty
\* Submit that follows does not push the number again and leaves the stack
\* unchanged.
C7_LiteralNotReplayed ==
    /\ (last.ev = "Submit" /\ parse_f64(last.text_box).ok) =>
          /\ stack = Append(last.stack, parse_f64(last.text_box).num)
          /\ previous = last.text_box
          /\ text_box = <<>>
    /\ (last.ev = "Submit" /\ last.text_box = <<>> /\ parse_f64(last.previous).ok) =>
          stack = last.stack

\* C8: handling Reset empties the stack, the input line and Previous, and
\* leaves the registry, the error queue, the sleeping timers and the events
\* in flight as they are; the loop goes on.
C8_Reset ==
    [][ Consumes("Reset") =>
          /\ stack' = <<>> /\ text_box' = <<>> /\ previous' = <<>>
          /\ operations' = operations
          /\ luaTable' = luaTable
          /\ errors' = errors
          /\ timers' = timers
          /\ chan' = Tail(chan)
          /\ pc' = "loop"
      ]_vars

\* a Reset was handled with values on the stack, script operations in the
\* registry, an error displayed and its timer still sleeping
C8_Witness ==
    /\ last.ev = "Reset" /\ last.stack # <<>>
    /\ stack = <<>>
    /\ DOMAIN operations # DOMAIN Builtins
    /\ errors # <<>> /\ timers > 0

\* C9: the error queue is FIFO: it holds the messages in the order their
\* PushError events were consumed, and the entries removed so far are the
\* oldest ones.
C9_Fifo == errors = SubSeq(pushed, npopped + 1, Len(pushed))

\* two different messages were queued and the first of them was removed
C9_Witness ==
    /\ Len(pushed) >= 2 /\ pushed[1] # pushed[2]
    /\ npopped = 1
    /\ errors # <<>> /\ errors[1] = pushed[2]

\* the largest number of messages a run with fairness can queue: one per
\* script at start-up and one per Submit
MaxErrors == 2 + FairEnters

\* C10: every message appended to the error queue is eventually removed
\* from it, unless the consumer stops running: it quits, or a draw fails
\* and ends the loop.
C10_Expiry ==
    \A n \in 1..MaxErrors :
        [](Len(pushed) >= n => <>(npopped >= n \/ pc \in {"done", "failed"}))

\* two messages were queued, the second while the first was displayed, a
\* key was handled, and both messages have been removed again
C10_Witness ==
    /\ Len(pushed) >= 2
    /\ nkeys > 0
    /\ npopped = Len(pushed)
    /\ errors = <<>>
    /\ pc = "loop"

----------------------------------------------------------------------------
(* Start-up loading *)

\* start-up is over: both scripts were loaded or failed to load
Started == pc \in {"loop", "done"}

\* C11: after start-up every operation a script declared before it failed
\* (or before it ended) is in the registry under its lower-cased name: the
\* names registered in the Lua table and the names bound in the Uiua
\* runtime.
C11_PartialLoad ==
    Started =>
        /\ \A name \in DOMAIN luaTable : to_lowercase(name) \in DOMAIN operations
        /\ \A name \in uiuaBound : to_lowercase(name) \in DOMAIN operations

\* both loads of main are over
Loaded == pc \notin {"load_lua", "load_uiua"}

\* the messages main sends for a failed load of each script
LuaLoadMsgs  == {MsgLoadLua(ErrNoFile), MsgLoadLua(ErrLua)}
UiuaLoadMsgs == {MsgLoadUiua(ErrNoFile), MsgLoadUiua(ErrUiua)}

\* number of PushError events sent so far with a message of msgs
SentErrors(msgs) ==
    Len(SelectSeq(chan, LAMBDA e : e.t = "PushError" /\ e.msg \in msgs))
        + Len(SelectSeq(pushed, LAMBDA m : m \in msgs))

\* a step of main that ends a load goes on to the next stage of start-up
LoadGoesOn ==
    pc \in {"load_lua", "load_uiua"} => (pc' = "load_uiua" \/ pc' = "terminal")

\* the loop is entered from the terminal set-up, with the polling thread
LoopFromTerminal ==
    (pc' = "loop" /\ pc # "loop") => (pc = "terminal" /\ pollPc' = "poll")

\* C12: a script that is absent or fails to load is not fatal: no load makes
\* main return, so main goes on to set the terminal up and enters the consumer
\* loop from there exactly as after two successful loads; once both loads are
\* over every built-in name still resolves to its built-in operation, and
\* exactly one PushError was sent for each failed load and none for a load
\* that succeeded (without a configuration path both loads fail, with the
\* same message), which is in the channel until the loop appends it to the
\* error queue.
C12_LoadFailure ==
    /\ [][LoadGoesOn]_vars
    /\ [][LoopFromTerminal]_vars
    /\ [](Loaded =>
            /\ \A name \in DOMAIN Builtins :
                   name \in DOMAIN operations /\ operations[name] = Builtins[name]
            /\ ~config_dir => loadErr = {"lua", "uiua"}
            /\ SentErrors({MsgNoPath}) = (IF config_dir THEN 0 ELSE 2)
            /\ SentErrors(LuaLoadMsgs) =
                   (IF config_dir /\ "lua" \in loadErr THEN 1 ELSE 0)
            /\ SentErrors(UiuaLoadMsgs) =
                   (IF config_dir /\ "uiua" \in loadErr THEN 1 ELSE 0))

\* functions.lua is absent and functions.ua fails, both messages were
\* appended to the error queue, and a name typed onto a non-empty stack was
\* then dispatched to its built-in operation
C12_Witness ==
    /\ pc = "loop"
    /\ loadErr = {"lua", "uiua"}
    /\ CountIn(MsgLoadLua(ErrNoFile), pushed) = 1
    /\ CountIn(MsgLoadUiua(ErrUiua), pushed) = 1
    /\ Resolved /\ TheOp = Builtins[DispatchedKey]
    /\ last.stack # <<>>

----------------------------------------------------------------------------
(* Producers and the channel *)

\* the variants the input-polling thread sends
PollEvents == {"Input", "Submit", "Tick", "Quit", "Reset", "ClearTextBox"}

\* e was sent by the input-polling thread, or by a timer thread
FromPoll(e)  == e.from = "poll" /\ e.t \in PollEvents
FromTimer(e) == e.from = "timer" /\ e.t = "PopError"

\* C13 as stated: every event in the channel was sent by the input-polling
\* thread (a key-derived event or a Tick) or by a timer thread (a PopError);
\* no other thread sends.
C13_TwoProducers ==
    \A i \in DOMAIN chan : FromPoll(chan[i]) \/ FromTimer(chan[i])

\* C13: every event in the channel was sent by the input-polling thread (a
\* key-derived event or a Tick), by a timer thread (a PopError), or by the
\* main thread, which sends the PushError events: for a failed load at
\* start-up and, as the consumer, from operate for a failed script call.
C13_Producers ==
    \A i \in DOMAIN chan :
        \/ FromPoll(chan[i])
        \/ FromTimer(chan[i])
        \/ chan[i].from = "main" /\ chan[i].t = "PushError"

\* the consumer, handling a Submit, sent a PushError for a failed script
\* call while a timer thread was sleeping
C13_Witness ==
    /\ last.ev = "Submit" /\ last.sent # <<>>
    /\ chan # <<>> /\ chan[Len(chan)] = last.sent[1]
    /\ chan[Len(chan)].from = "main"
    /\ timers > 0

----------------------------------------------------------------------------
(* Dispatch as a function of the stack and of the submitted text: the      *)
(* calculator with both scripts loaded, a stack of small numbers, a name   *)
(* on the input line and the Submits of the Enter keys in the channel.     *)

\* the stacks have at most MaxOperands values, each an integer of -1..MaxVal
MaxOperands == 3
MaxVal == 2
\* Enter keys read before the consumer handles the first Submit
OpEnters == 2

OpVals == {FromInt(n) : n \in (0 - 1)..MaxVal}

OpStacks == UNION {[1..n -> OpVals] : n \in 0..MaxOperands}

\* the text a value of OpVals is typed as (parse_f64 reads it back)
OpLiteral(x) ==
    LET digits == <<"0", "1", "2", "3", "4", "5", "6", "7", "8", "9">>
    IN  IF x.n < 0 THEN <<"-", digits[1 - x.n]>> ELSE <<digits[x.n + 1]>>

\* char::to_uppercase on ASCII, for the texts typed in upper case
UpperChar(c) ==
    IF \E i \in DOMAIN LowerLetters : LowerLetters[i] = c
    THEN UpperLetters[CHOOSE i \in DOMAIN LowerLetters : LowerLetters[i] = c]
    ELSE c

\* the names under which the loaded calculator has operations, as declared,
\* and a name it has none under
OpNames == DOMAIN Builtins \cup {<<"F">>, <<"U">>, <<"n", "o", "p", "e">>}

\* each name typed as declared, in lower case, in upper case and capitalised
OpTexts ==
    UNION {{name,
            [i \in DOMAIN name |-> LowerChar(name[i])],
            [i \in DOMAIN name |-> IF name = <<"backquote">> THEN name[i]
                                   ELSE UpperChar(name[i])],
            [i \in DOMAIN name |-> IF i = 1 /\ name # <<"backquote">>
                                   THEN UpperChar(name[i]) ELSE LowerChar(name[i])]}
           : name \in OpNames}

\* the scripts functions.ua is loaded from: with and without a value left
\* on the runtime stack by a top-level expression
OpUiuaScripts == {UiuaOk, UiuaLeft}

\* The state after start-up with functions.lua = LuaOk and functions.ua one
\* of OpUiuaScripts, after the values of the stack were entered as literals
\* (Previous is the last one) and the text was typed; the Enter key was
\* pressed OpEnters times and its Submits are in the channel; the polling
\* thread reads no further key.
OpInit ==
    \E script \in OpUiuaScripts :
    LET l == load_lua(LuaOk, Builtins)
        u == load_uiua(script, l.operations, <<>>)
    IN  /\ stack \in OpStacks
        /\ text_box \in OpTexts
        /\ previous = IF stack = <<>> THEN <<>> ELSE OpLiteral(stack[Len(stack)])
        /\ operations = u.operations
        /\ errors = <<>>
        /\ uiuaStack = u.rt
        /\ luaTable = l.table
        /\ uiuaBound = u.bound
        /\ loadErr = {}
        /\ config_dir = TRUE
        /\ chan = [i \in 1..OpEnters |-> translate(Key("Enter", "", FALSE))]
        /\ timers = 0
        /\ pc = "loop"
        /\ pollPc = "poll"
        /\ nkeys = MaxKeys
        /\ nenters = MaxEnters
        /\ nticks = MaxTicks
        /\ last = [ev |-> "none", how |-> "", ret |-> FALSE, stack |-> <<>>,
                   text_box |-> <<>>, previous |-> <<>>, rt |-> <<>>, sent |-> <<>>]
        /\ pushed = <<>>
        /\ npopped = 0

\* the consumer handles the next Submit
OpNext == HandleSubmit

OpSpec == OpInit /\ [][OpNext]_vars

----------------------------------------------------------------------------
(* Properties of dispatch *)

\* the i-th operand x_i of the operation dispatched, counted from the
\* deepest of the top k values of the stack before the call
Operand(i) == last.stack[Len(last.stack) - TheOp.arity + i]

\* what the built-in under the key resolved computes from x_1 .. x_k
NativeResult ==
    LET x == [i \in 1..TheOp.arity |-> Operand(i)]
        k == DispatchedKey
    IN  CASE k = <<"+">> -> <<fadd(x[1], x[2])>>
          [] k = <<"-">> -> <<fsub(x[1], x[2])>>
          [] k = <<"*">> -> <<fmul(x[1], x[2])>>
          [] k = <<"/">> -> <<fdiv(x[1], x[2])>>
          [] k = <<"^">> -> <<fpow(x[1], x[2])>>
          [] k = <<"s", "w", "a", "p">> -> <<x[2], x[1]>>
          [] k \in {<<"n", "e", "g">>, <<"backquote">>} -> <<fneg(x[1])>>
          [] k = <<"p", "r", "e", "d">> -> <<fsub(x[1], FromInt(1))>>
          [] k = <<"s", "u", "c", "c">> -> <<fadd(x[1], FromInt(1))>>
          [] k = <<"s", "i", "n">> -> <<fodd("sin", x[1])>>
          [] k = <<"c", "o", "s">> -> <<fcos(x[1])>>
          [] k = <<"t", "a", "n">> -> <<fodd("tan", x[1])>>
          [] k = <<"a", "s", "i", "n">> -> <<fodd("asin", x[1])>>
          [] k = <<"a", "c", "o", "s">> -> <<facos(x[1])>>
          [] k = <<"a", "t", "a", "n">> -> <<fatan(x[1])>>
          [] k = <<"d", "2", "r">> -> <<d2r(x[1])>>
          [] k = <<"l", "n">> -> <<fln(x[1])>>
          [] k = <<"s", "q", "r", "t">> -> <<fsqrt(x[1])>>
          [] k = <<"c", "b", "r", "t">> -> <<fcbrt(x[1])>>
          [] k = <<"p", "i">> -> <<Pi>>

\* C14: after a built-in operation of arity k succeeds on the stack
\* s ++ [x_1 .. x_k], the stack is s ++ f(x_1 .. x_k): f receives the
\* operands in their original bottom-to-top order (subtraction yields
\* x_1 - x_2, swap yields x_2, x_1), its outputs are appended in the order
\* produced, and the values below the operands are unchanged.
C14_NativeOrder ==
    (Resolved /\ TheOp.kind = "Rust" /\ last.ret) =>
        /\ Len(last.stack) >= TheOp.arity
        /\ stack = SubSeq(last.stack, 1, Len(last.stack) - TheOp.arity) \o NativeResult

\* a subtraction of two different operands above a third value, and a swap
\* of two different operands above a third value, were applied
C14_Witness ==
    /\ Resolved /\ TheOp.kind = "Rust" /\ last.ret
    /\ Len(last.stack) = 3 /\ last.stack[2] # last.stack[3]
    /\ \/ DispatchedKey = <<"-">> /\ stack = <<last.stack[1], fsub(last.stack[2], last.stack[3])>>
       \/ DispatchedKey = <<"s", "w", "a", "p">>
            /\ stack = <<last.stack[1], last.stack[3], last.stack[2]>>
            /\ last.text_box # DispatchedKey

\* two characters are equal up to letter case
SameChar(c, d) ==
    \/ c = d
    \/ \E i \in DOMAIN UpperLetters : {c, d} = {UpperLetters[i], LowerLetters[i]}

\* two texts are equal up to letter case
SameUpToCase(t, n) ==
    Len(t) = Len(n) /\ \A i \in DOMAIN t : SameChar(t[i], n[i])

\* the names under which operations were registered, as declared: the
\* built-ins, the names functions.lua registered and the names functions.ua
\* bound
DeclaredNames == DOMAIN Builtins \cup DOMAIN luaTable \cup uiuaBound

\* C15: operator lookup is case-insensitive.  A text that equals a declared
\* name up to letter case is resolved: submitted with enough operands, the
\* operation of that name is applied (or, for a scripted operation whose
\* call fails, its error is reported).  Texts that are equal up to letter
\* case resolve alike: operate gives for each of them the result it gives
\* for the name they spell, an operation's or an unknown one (compared on
\* the stacks whose values the model computes, where the script functions
\* can be evaluated).
C15_CaseInsensitive ==
    /\ \A name \in DeclaredNames :
         (Dispatched /\ last.how = "input" /\ SameUpToCase(DispatchedText, name)) =>
             /\ DispatchedKey \in DOMAIN operations
             /\ CASE name \in DOMAIN luaTable -> TheOp.kind = "Lua" /\ TheOp.fn = name
                  [] name \in uiuaBound -> TheOp.kind = "Uiua"
                  [] OTHER -> TheOp = Builtins[name]
             /\ (Enough /\ ~CallFails) =>
                    last.ret /\ stack = PopK(last.stack, TheOp.arity) \o Outputs
             /\ (Enough /\ CallFails) => last.sent = <<PushError(FailureMsg)>>
    /\ \A name \in OpNames : \A text \in OpTexts :
         (SameUpToCase(text, name) /\ \A i \in DOMAIN stack : ~IsTerm(stack[i])) =>
             operate(text, operations, stack, luaTable, uiuaStack)
               = operate(name, operations, stack, luaTable, uiuaStack)

\* a built-in typed in upper case, or the Lua operation declared as F typed
\* in lower case, was applied
C15_Witness ==
    /\ Dispatched /\ last.how = "input" /\ last.ret
    /\ \/ last.text_box = <<"S", "W", "A", "P">>
            /\ Len(last.stack) = 2 /\ stack = <<last.stack[2], last.stack[1]>>
       \/ last.text_box = <<"f">> /\ TheOp = Op("Lua", <<"F">>, 1)

----------------------------------------------------------------------------
(* The input-polling thread *)

\* the step is the polling thread reading a key
ReadsKey == nkeys' + nenters' = nkeys + nenters + 1

\* the step is a thread sending a Tick
SendsTick == chan' = Append(chan, Tick)

\* C16: the polling thread sends exactly one event for each key it reads,
\* the translation of the key, and it sends a Tick only in an iteration in
\* which it consumed no key: never after the key-derived event of the same
\* iteration.
C16_KeyOrTick ==
    [][ /\ ReadsKey => \E key \in Keys : chan' = Append(chan, translate(key))
        /\ SendsTick => pollPc # "after_key" ]_vars

----------------------------------------------------------------------------
(* Delivery *)

\* the step handles nothing: it leaves the channel alone (a step of
\* start-up, a failed draw), or a thread sends one event, which goes behind
\* the events in flight
SendsOrIdles ==
    /\ chan' = chan \/ \E i \in DOMAIN chan' : chan' = Append(chan, chan'[i])
    /\ last' = last

\* the step is the consumer receiving the oldest event in flight and
\* handling it; what it sends while handling goes behind the events in
\* flight; it leaves the loop exactly when the event is Quit
HandlesHead ==
    /\ pc = "loop" /\ chan # <<>>
    /\ last'.ev = Head(chan).t
    /\ Len(chan') >= Len(chan) - 1
    /\ SubSeq(chan', 1, Len(chan) - 1) = Tail(chan)
    /\ \A i \in Len(chan)..Len(chan') : chan'[i].t = "PushError"
    /\ pc' = IF Head(chan).t = "Quit" THEN "done" ELSE "loop"

\* every step sends behind the events in flight or handles the oldest of
\* them: events are handled once each, in the order they were sent
FifoSteps == [][SendsOrIdles \/ HandlesHead]_vars

\* C17 as stated: no event is lost or reordered, and every event sent
\* before the Quit event is consumed is handled exactly once: when the loop
\* has ended, no event is left in the channel.
C17_NoneLost == FifoSteps /\ [](pc = "done" => chan = <<>>)

\* C17: every event is received in the order of sending, hence two events
\* of one thread in their send order, and each event is handled at most
\* once; when the loop has ended on Quit, every event sent ahead of the
\* Quit event has been handled and nothing is handled after it, so the
\* events sent behind the Quit event stay in the channel unhandled, as do
\* the events in the channel when a failed draw ends the loop.
C17_Fifo == FifoSteps /\ [](pc = "done" => last.ev = "Quit")

\* events of a timer thread and of the polling thread were handled, the
\* loop has ended on Quit, and an event sent behind the Quit is left
C17_Witness ==
    /\ pc = "done" /\ last.ev = "Quit"
    /\ npopped > 0 /\ stack # <<>>
    /\ chan # <<>>

----------------------------------------------------------------------------
(* The error queue and its timers *)

\* C18: handling PopError leaves the stack, the input line, Previous and
\* the registry unchanged, sends nothing and keeps the loop running; it
\* leaves an empty error queue empty and removes exactly the head of a
\* non-empty one.
C18_PopOldest ==
    [][ Consumes("PopError") =>
          /\ stack' = stack /\ text_box' = text_box /\ previous' = previous
          /\ operations' = operations
          /\ errors' = IF errors = <<>> THEN <<>> ELSE Tail(errors)
          /\ chan' = Tail(chan)
          /\ pc' = "loop" ]_vars

\* a PopError was handled while two messages were queued: the second one
\* is left, with a stack, an input line and a Previous to preserve
C18_Witness ==
    /\ last.ev = "PopError" /\ pc = "loop"
    /\ npopped = 1 /\ Len(pushed) = 2 /\ errors = <<pushed[2]>>
    /\ stack # <<>> /\ text_box # <<>> /\ previous # <<>>

\* C19: the error queue holds one message for each timer thread still
\* sleeping and each PopError sent and not yet received; it changes only
\* when a PushError or a PopError is handled (not on Reset, ClearTextBox,
\* Submit, Tick or key input), and a PopError is never handled while the
\* queue is empty.
C19_QueueAccounting ==
    /\ [](Len(errors) = timers + CountIn(PopError, chan))
    /\ [][ /\ errors' # errors => Consumes("PushError") \/ Consumes("PopError")
           /\ Consumes("PopError") => errors # <<>> ]_vars

\* a Reset was handled while one message had a sleeping timer and another
\* had its PopError in the channel: both messages are still queued
C19_Witness ==
    /\ last.ev = "Reset"
    /\ Len(errors) = 2
    /\ timers = 1
    /\ CountIn(PopError, chan) = 1

----------------------------------------------------------------------------
(* The Uiua runtime stack *)

\* what the bound function leaves when it is invoked on the operands alone
UiuaOnOperands ==
    uiua_call(TheOp.fn, [i \in 1..TheOp.arity |-> UNum(TheArgs[i])])

\* C20: the stack of the Uiua runtime is empty whenever a Uiua operation
\* starts, after start-up loading and after every earlier call, and is empty
\* again after the call; so on success the values appended to the stack are
\* exactly the results of the function on the top k values, with nothing
\* left over from loading or from an earlier call.
C20_UiuaStackEmpty ==
    (Resolved /\ TheOp.kind = "Uiua" /\ Enough) =>
        /\ last.rt = <<>>
        /\ uiuaStack = <<>>
        /\ last.ret =>
             stack = PopK(last.stack, TheOp.arity) \o as_nums(UiuaOnOperands.rt).out

====
